---- MODULE Spec2Model ----
(***************************************************************************)
(* A model of three pieces of the cio repository:                          *)
(*   - refresh_software_vendors (cio/src/finance.rs): the reconciliation   *)
(*     of the Airtable software-vendor table into the local database;      *)
(*   - post_to_channel (cio/src/slack.rs): the webhook notifier;           *)
(*   - write_file and read_config_from_files (src/utils.rs).               *)
(* Each piece has its own specification (SpecVendors, SpecNotifier,        *)
(* SpecFiles, SpecConfig) over the variables it uses; the variables of the *)
(* other pieces are held fixed.                                            *)
(***************************************************************************)
EXTENDS Integers, Sequences, FiniteSets, TLC

(***************************************************************************)
(* Bounds of the model.                                                    *)
(***************************************************************************)
\* Longest Airtable listing (number of records list_records returns).
MaxRecords == 2
\* Largest count an enrichment source reports.
MaxSeats == 1

(***************************************************************************)
(* refresh_software_vendors: data                                          *)
(***************************************************************************)
\* The names the decoded records carry.  "GitHub" is one of the special
\* cases of the dispatch; "Acme" matches none.
ListedNames == {"GitHub", "Acme"}

\* The values of the non-key field `status`, standing for every field the
\* routine copies from the remote record unchanged.
Statuses == {"active", "inactive"}

\* A remote field map may omit `users`; serde(default) then decodes 0.
Absent == -1

\* The id Airtable gives the record at position k of the table.
RecordId(k) == IF k = 1 THEN "rec1" ELSE IF k = 2 THEN "rec2" ELSE "rec3"

\* What a remote field map holds under `users`: nothing, or a count written
\* there earlier.
RemoteUsers == {Absent, 1}

\* The raw field maps of the remote records: for each name, one map that
\* omits `users` and one that carries it, with different statuses.
RemoteFields ==
    { f \in [name : ListedNames, status : Statuses, users : RemoteUsers] :
        (f.users = Absent) <=> (f.status = "active") }

\* airtable_api::Record<SoftwareVendor>: an id and the fields.
RemoteRecord(k, f) == [id |-> RecordId(k), fields |-> f]

\* Every listing list_records can return: at most MaxRecords records, with
\* distinct ids; names may repeat (Airtable does not make them unique).
Listings ==
    UNION { { [k \in 1..n |-> RemoteRecord(k, fs[k])] : fs \in [1..n -> RemoteFields] }
            : n \in 0..MaxRecords }

\* The enrichment sources of the routine.
Sources == {"github", "okta", "gsuite", "slack", "group"}

\* The source queried for a record of this name: finance.rs:88-122.
EnrichmentSource(name) ==
    IF name = "GitHub" THEN "github"
    ELSE IF name = "Okta" THEN "okta"
    ELSE IF name = "Google Workspace" THEN "gsuite"
    ELSE IF name = "Slack" THEN "slack"
    ELSE IF name \in {"Airtable", "Brex", "Gusto", "Expensify"} THEN "group"
    ELSE "none"

\* The sources some listed name dispatches to; only their counts vary.
UsedSources == { EnrichmentSource(n) : n \in ListedNames } \ {"none"}

\* NewSoftwareVendor decoded from the record's fields (finance.rs:86):
\* an omitted `users` decodes to the serde default, zero.
Decode(f) ==
    [name |-> f.name, status |-> f.status,
     users |-> IF f.users = Absent THEN 0 ELSE f.users]

\* Mutant of Enriched: the reported count is never assigned to `users`.
EnrichedKeepsDecoded(v, source, count) == v

\* The decoded vendor after the enrichment call (finance.rs:88-122): a
\* matched source's count replaces `users`; no match leaves it as decoded.
Enriched(v, source, count) ==
    IF source = "none" THEN v ELSE [v EXCEPT !.users = count]

\* The position of the first row of the store with this name; 0 if none.
IndexOf(s, name) ==
    IF \E k \in 1..Len(s) : s[k].name = name
    THEN CHOOSE k \in 1..Len(s) :
             /\ s[k].name = name
             /\ \A j \in 1..(k - 1) : s[j].name # name
    ELSE 0

\* vendor.upsert_in_db(&db) (finance.rs:125): match on `name`; a row with
\* that name has its non-key fields updated in place, otherwise a new row
\* is inserted, its airtable_record_id empty.
upsert_in_db(s, v) ==
    IF IndexOf(s, v.name) = 0
    THEN Append(s, [name |-> v.name, status |-> v.status, users |-> v.users,
                    airtable_record_id |-> ""])
    ELSE [s EXCEPT ![IndexOf(s, v.name)].status = v.status,
                   ![IndexOf(s, v.name)].users = v.users]

\* Mutant of SetRecordId: the linkage is overwritten whether empty or not.
SetRecordIdAlways(row, id) == [row EXCEPT !.airtable_record_id = id]

\* finance.rs:127-129: an empty linkage takes the id of the record just
\* processed; a non-empty one is kept.
SetRecordId(row, id) ==
    IF row.airtable_record_id = "" THEN [row EXCEPT !.airtable_record_id = id]
    ELSE row

\* db_vendor.update(&db) (finance.rs:130): the row is written back at its
\* primary key.
update(s, id, row) == [s EXCEPT ![id] = row]

\* One record processed to the end: finance.rs:125-130.
WriteRecord(s, v, id) ==
    update(upsert_in_db(s, v), IndexOf(upsert_in_db(s, v), v.name),
           SetRecordId(upsert_in_db(s, v)[IndexOf(upsert_in_db(s, v), v.name)], id))

\* The writes of a sequence of enriched records, in order.
RECURSIVE WriteRecords(_, _)
WriteRecords(s, done) ==
    IF done = << >> THEN s
    ELSE WriteRecord(WriteRecords(s, SubSeq(done, 1, Len(done) - 1)),
                     done[Len(done)].vendor, done[Len(done)].id)

(***************************************************************************)
(* The variables of the other pieces                                       *)
(***************************************************************************)
VARIABLES
    \* post_to_channel
    npc,        \* where the caller and the call stand
    url,        \* the webhook the call posts to
    payload,    \* the JSON value posted
    attempts,   \* the requests this call has sent
    response,   \* what send() returned
    log,        \* the lines printed so far
    outcome,    \* how the last call ended
    posts,      \* the calls the caller has made
    \* write_file
    fs,         \* the file system: what each path holds
    fs0,        \* history: the file system before the call
    file,       \* the path given
    contents,   \* the contents given
    wpc,        \* where write_file stands
    wcause,     \* why write_file panicked
    utf8,       \* whether the path given is valid UTF-8
    info_enabled, \* whether the log crate's Info level is enabled
    \* read_config_from_files
    disk,       \* the body of each file, or that it cannot be read
    cli_matches, \* the command line: the values of "file", if it was given
    files,      \* the values collected from the command line
    rpc,        \* where read_config_from_files stands
    next_file,  \* the position in files of the file read next
    config_contents, \* the String the bodies are appended to
    config,     \* the Config returned
    rcause      \* why read_config_from_files panicked

notifierVars == <<npc, url, payload, attempts, response, log, outcome, posts>>
fileVars == <<fs, fs0, file, contents, wpc, wcause, utf8, info_enabled>>
configVars == <<disk, cli_matches, files, rpc, next_file, config_contents, config, rcause>>

NoResponse == [received |-> FALSE, status |-> 0, readable |-> FALSE]
NoFile == << >>
NoConfig == [ok |-> FALSE, table |-> {}]

\* The notifier before any call.
NotifierIdle ==
    /\ npc = "caller"
    /\ url = ""
    /\ payload = ""
    /\ attempts = 0
    /\ response = NoResponse
    /\ log = << >>
    /\ outcome = "none"
    /\ posts = 0

\* No write_file call, on an empty file system.
FilesIdle ==
    /\ fs = << >>
    /\ fs0 = << >>
    /\ file = NoFile
    /\ contents = << >>
    /\ wpc = "idle"
    /\ wcause = "none"
    /\ utf8 = TRUE
    /\ info_enabled = FALSE

\* No read_config_from_files call.
ConfigIdle ==
    /\ disk = << >>
    /\ cli_matches = [given |-> FALSE, values |-> << >>]
    /\ files = << >>
    /\ rpc = "idle"
    /\ next_file = 0
    /\ config_contents = << >>
    /\ config = NoConfig
    /\ rcause = "none"

(***************************************************************************)
(* refresh_software_vendors: state                                         *)
(***************************************************************************)
VARIABLES
    store,      \* the software_vendors table: a sequence of rows, in primary-key order
    remote,     \* the Airtable table, as list_records returns it
    live,       \* the count each enrichment source reports now
    pc,         \* where the routine stands
    results,    \* the listing the run iterates over (finance.rs:84)
    i,          \* the position of vendor_record in results
    vendor,     \* the NewSoftwareVendor being processed
    db_vendor,  \* the row upsert_in_db returned, and its primary key
    cause,      \* why the last run aborted
    store0,     \* history: the store when the current run started
    enriched,   \* history: the records of this run whose enrichment returned
    call,       \* history: the enrichment call made for the current record
    clean,      \* history: remote and live unchanged since the run started
    rerun       \* history: the run follows a successful run on the same snapshot

vendorVars == <<store, remote, live, pc, results, i, vendor, db_vendor, cause,
                store0, enriched, call, clean, rerun>>

vars == <<vendorVars, notifierVars, fileVars, configVars>>

NoVendor == [name |-> "", status |-> "", users |-> 0]
NoRow == [id |-> 0, name |-> "", status |-> "", users |-> 0, airtable_record_id |-> ""]
NoCall == [source |-> "none", reported |-> 0]

\* Rows the store holds before the first run: written by an earlier
\* reconciliation (linkage set) or by another path (linkage still empty).
LegacyRows(n) ==
    [name : {n}, status : {"inactive"}, users : {0},
     airtable_record_id : {"", "recOld"}]

\* The stores the routine may start from: no two rows share a name.
InitialStores ==
    LET Legacy == UNION { LegacyRows(n) : n \in ListedNames }
    IN  UNION { { s \in [1..n -> Legacy] :
                    \A j, k \in 1..n : j # k => s[j].name # s[k].name }
                : n \in 0..Cardinality(ListedNames) }

\* The state after construction: no run has started.
InitVendors ==
    /\ store \in InitialStores
    /\ remote \in Listings
    /\ live \in [UsedSources -> 0..MaxSeats]
    /\ pc = "idle"
    /\ results = << >>
    /\ i = 0
    /\ vendor = NoVendor
    /\ db_vendor = NoRow
    /\ cause = "none"
    /\ store0 = store
    /\ enriched = << >>
    /\ call = NoCall
    /\ clean = FALSE
    /\ rerun = FALSE
    /\ NotifierIdle
    /\ FilesIdle
    /\ ConfigIdle

\* No run of refresh_software_vendors, on an empty store.
VendorsIdle ==
    /\ store = << >>
    /\ remote = << >>
    /\ live = [s \in UsedSources |-> 0]
    /\ pc = "idle"
    /\ results = << >>
    /\ i = 0
    /\ vendor = NoVendor
    /\ db_vendor = NoRow
    /\ cause = "none"
    /\ store0 = << >>
    /\ enriched = << >>
    /\ call = NoCall
    /\ clean = FALSE
    /\ rerun = FALSE

Resting == pc \in {"idle", "done", "aborted"}

\* What a run that starts resets.
BeginRun ==
    /\ Resting
    /\ store0' = store
    /\ enriched' = << >>
    /\ call' = NoCall
    /\ vendor' = NoVendor
    /\ db_vendor' = NoRow
    /\ UNCHANGED <<notifierVars, fileVars, configVars, store, remote, live>>

\* How a run ends in a panic: nothing more is written.
Abort(why) ==
    /\ pc' = "aborted"
    /\ cause' = why
    /\ clean' = FALSE
    /\ rerun' = FALSE

\* finance.rs:71-81: GADMIN_ACCOUNT_ID or another variable a client is
\* built from is not set; unwrap panics before anything is read.
StartMissingConfig ==
    /\ BeginRun
    /\ Abort("config")
    /\ results' = << >>
    /\ i' = 0

\* Mutant of StartListFails: the table is emptied before the listing is read.
StartListFailsAfterTruncate ==
    /\ Resting
    /\ store' = << >>
    /\ store0' = store
    /\ enriched' = << >>
    /\ call' = NoCall
    /\ vendor' = NoVendor
    /\ db_vendor' = NoRow
    /\ Abort("list")
    /\ results' = << >>
    /\ i' = 0
    /\ UNCHANGED <<notifierVars, fileVars, configVars, remote, live>>

\* finance.rs:84: list_records fails (the call, or the decoding of a
\* record); unwrap panics.
StartListFails ==
    /\ BeginRun
    /\ Abort("list")
    /\ results' = << >>
    /\ i' = 0

\* Mutant of StartOk: the run reloads the table from scratch.
StartOkTruncates ==
    /\ Resting
    /\ store' = << >>
    /\ store0' = store
    /\ enriched' = << >>
    /\ call' = NoCall
    /\ vendor' = NoVendor
    /\ db_vendor' = NoRow
    /\ results' = remote
    /\ i' = 1
    /\ pc' = IF remote = << >> THEN "done" ELSE "loop"
    /\ cause' = "none"
    /\ rerun' = (pc = "done" /\ clean)
    /\ clean' = TRUE
    /\ UNCHANGED <<notifierVars, fileVars, configVars, remote, live>>

\* finance.rs:71-85: the listing is read whole and the loop entered.
StartOk ==
    /\ BeginRun
    /\ results' = remote
    /\ i' = 1
    /\ pc' = IF remote = << >> THEN "done" ELSE "loop"
    /\ cause' = "none"
    /\ rerun' = (pc = "done" /\ clean)
    /\ clean' = TRUE

\* finance.rs:86-122: the record is decoded and the source its name
\* matches is queried; the count it reports now becomes `users`.
Enrich ==
    /\ pc = "loop"
    /\ LET v == Decode(results[i].fields)
           source == EnrichmentSource(v.name)
           count == IF source = "none" THEN 0 ELSE live[source]
       IN  /\ vendor' = Enriched(v, source, count)
           /\ call' = [source |-> source, reported |-> count]
           /\ enriched' = Append(enriched,
                                 [id |-> results[i].id,
                                  vendor |-> Enriched(v, source, count)])
    /\ pc' = "enriched"
    /\ UNCHANGED <<notifierVars, fileVars, configVars, store, remote, live, results, i, db_vendor, cause, store0,
                   clean, rerun>>

\* Mutant of EnrichFails: the record is upserted before its source is
\* queried, so the failing record is already in the store.
EnrichFailsAfterUpsert ==
    /\ pc = "loop"
    /\ EnrichmentSource(Decode(results[i].fields).name) # "none"
    /\ store' = upsert_in_db(store, Decode(results[i].fields))
    /\ Abort("enrich")
    /\ call' = [source |-> EnrichmentSource(Decode(results[i].fields).name),
                reported |-> 0]
    /\ UNCHANGED <<notifierVars, fileVars, configVars, remote, live, results, i, vendor, db_vendor, store0, enriched>>

\* finance.rs:90,95,100,105,119-120: the call to the matched source fails
\* and unwrap panics.
EnrichFails ==
    /\ pc = "loop"
    /\ EnrichmentSource(Decode(results[i].fields).name) # "none"
    /\ Abort("enrich")
    /\ call' = [source |-> EnrichmentSource(Decode(results[i].fields).name),
                reported |-> 0]
    /\ UNCHANGED <<notifierVars, fileVars, configVars, store, remote, live, results, i, vendor, db_vendor, store0,
                   enriched>>

\* Mutant of Upsert: the vendor is inserted without matching on its name.
UpsertAlwaysInserts ==
    /\ pc = "enriched"
    /\ store' = Append(store, [name |-> vendor.name, status |-> vendor.status,
                               users |-> vendor.users, airtable_record_id |-> ""])
    /\ db_vendor' = [id |-> Len(store'), name |-> vendor.name,
                     status |-> vendor.status, users |-> vendor.users,
                     airtable_record_id |-> ""]
    /\ pc' = "upserted"
    /\ UNCHANGED <<notifierVars, fileVars, configVars, remote, live, results, i, vendor, cause, store0, enriched,
                   call, clean, rerun>>

\* finance.rs:125: the vendor is upserted; the row comes back.
Upsert ==
    /\ pc = "enriched"
    /\ store' = upsert_in_db(store, vendor)
    /\ db_vendor' = [id |-> IndexOf(store', vendor.name),
                     name |-> store'[IndexOf(store', vendor.name)].name,
                     status |-> store'[IndexOf(store', vendor.name)].status,
                     users |-> store'[IndexOf(store', vendor.name)].users,
                     airtable_record_id |->
                         store'[IndexOf(store', vendor.name)].airtable_record_id]
    /\ pc' = "upserted"
    /\ UNCHANGED <<notifierVars, fileVars, configVars, remote, live, results, i, vendor, cause, store0, enriched,
                   call, clean, rerun>>

\* finance.rs:125: the store refuses the upsert; nothing is written.
UpsertFails ==
    /\ pc = "enriched"
    /\ Abort("upsert")
    /\ UNCHANGED <<notifierVars, fileVars, configVars, store, remote, live, results, i, vendor, db_vendor, store0,
                   enriched, call>>

\* The row of db_vendor, without its primary key.
RowOf(d) ==
    [name |-> d.name, status |-> d.status, users |-> d.users,
     airtable_record_id |-> d.airtable_record_id]

\* Mutant of Update: the linkage is set in memory but the row is never
\* written back.
UpdateSkipsWrite ==
    /\ pc = "upserted"
    /\ db_vendor' = [db_vendor EXCEPT !.airtable_record_id =
                        SetRecordId(RowOf(db_vendor), results[i].id).airtable_record_id]
    /\ i' = i + 1
    /\ pc' = IF i = Len(results) THEN "done" ELSE "loop"
    /\ UNCHANGED <<notifierVars, fileVars, configVars, store, remote, live, results, vendor, cause, store0, enriched,
                   call, clean, rerun>>

\* finance.rs:127-131: the linkage is filled in if empty, the row written
\* back, and the loop moves to the next record or ends.
Update ==
    /\ pc = "upserted"
    /\ store' = update(store, db_vendor.id,
                       SetRecordId(RowOf(db_vendor), results[i].id))
    /\ db_vendor' = [db_vendor EXCEPT !.airtable_record_id =
                        SetRecordId(RowOf(db_vendor), results[i].id).airtable_record_id]
    /\ i' = i + 1
    /\ pc' = IF i = Len(results) THEN "done" ELSE "loop"
    /\ UNCHANGED <<notifierVars, fileVars, configVars, remote, live, results, vendor, cause, store0, enriched, call,
                   clean, rerun>>

\* finance.rs:130: the write-back fails; the row stays as upsert left it.
UpdateFails ==
    /\ pc = "upserted"
    /\ Abort("update")
    /\ UNCHANGED <<notifierVars, fileVars, configVars, store, remote, live, results, i, vendor, db_vendor, store0,
                   enriched, call>>

\* An enrichment source reports another count from now on.
LiveChange ==
    /\ \E source \in UsedSources, n \in 0..MaxSeats :
           /\ live[source] # n
           /\ live' = [live EXCEPT ![source] = n]
    /\ clean' = FALSE
    /\ UNCHANGED <<notifierVars, fileVars, configVars, store, remote, pc, results, i, vendor, db_vendor, cause,
                   store0, enriched, call, rerun>>

NextVendors ==
    \/ StartMissingConfig
    \/ StartListFails
    \/ StartOk
    \/ Enrich
    \/ EnrichFails
    \/ Upsert
    \/ UpsertFails
    \/ Update
    \/ UpdateFails
    \/ LiveChange

SpecVendors == InitVendors /\ [][NextVendors]_vars

(***************************************************************************)
(* refresh_software_vendors: properties                                    *)
(***************************************************************************)
\* The names of the first n records of a listing.
NamesOf(listing, n) == { listing[k].fields.name : k \in 1..n }

\* The positions of the records of a listing that carry a name.
Named(listing, name) == { k \in 1..Len(listing) : listing[k].fields.name = name }

First(S) == CHOOSE k \in S : \A j \in S : k <= j
Last(S) == CHOOSE k \in S : \A j \in S : j <= k

\* The rows of a store that carry a name.
RowsNamed(s, name) == { j \in 1..Len(s) : s[j].name = name }

\* C1: after a successful run, every name of the listing has exactly one row.
\* If the store had no such row, the row is new: it has the status of the
\* (last) record of that name and the id of the (first) record of that name
\* as linkage, so for a single record {id R, name N, status S} the row is
\* (N, S, R).  If the store had the row, it is the same row, at the same
\* primary key, with the status updated in place.
C1_UpsertByName ==
    pc = "done" =>
        \A k \in 1..Len(results) :
            LET N == results[k].fields.name
                rows == RowsNamed(store, N)
                row == store[First(rows)]
            IN  /\ Cardinality(rows) = 1
                /\ row.status = results[Last(Named(results, N))].fields.status
                /\ IF RowsNamed(store0, N) = {}
                   THEN /\ First(rows) > Len(store0)
                        /\ row.airtable_record_id = results[First(Named(results, N))].id
                   ELSE rows = RowsNamed(store0, N)

\* C1 witness: a successful run over a one-record listing whose name the
\* store, not empty, did not hold.
C1_Witness ==
    /\ pc = "done"
    /\ Len(results) = 1
    /\ store0 # << >>
    /\ RowsNamed(store0, results[1].fields.name) = {}
    /\ results[1].fields.status = "active"

\* C2: a successful run that follows a successful run, with the listing and
\* the enrichment counts unchanged since that one started, leaves the store
\* exactly as it found it.
C2_Idempotent ==
    (pc = "done" /\ rerun /\ clean) => store = store0

\* C2 witness: such a second run ended, over a listing of two records of
\* the same name, the first run having changed the store.
C2_Witness ==
    /\ pc = "done"
    /\ rerun
    /\ clean
    /\ Len(results) >= 2
    /\ results[1].fields.name = results[2].fields.name
    /\ results[1].fields.status # results[2].fields.status

\* C3: after a successful run every row whose name is in the listing has a
\* non-empty linkage: the one it had before the run if that was not empty,
\* otherwise the id of the first record of its name that the run processed.
C3_Linkage ==
    pc = "done" =>
        \A k \in 1..Len(results) :
            LET N == results[k].fields.name
                row == store[IndexOf(store, N)]
                old == IF IndexOf(store0, N) = 0 THEN ""
                       ELSE store0[IndexOf(store0, N)].airtable_record_id
            IN  /\ IndexOf(store, N) # 0
                /\ row.airtable_record_id # ""
                /\ row.airtable_record_id =
                       IF old = "" THEN results[First(Named(results, N))].id ELSE old

\* C3 witness: a successful run that met both a row with a linkage and a
\* row without one.
C3_Witness ==
    /\ pc = "done"
    /\ \E j \in 1..Len(store0) :
           /\ store0[j].airtable_record_id = ""
           /\ store0[j].name \in NamesOf(results, Len(results))
    /\ \E j \in 1..Len(store0) :
           /\ store0[j].airtable_record_id # ""
           /\ store0[j].name \in NamesOf(results, Len(results))

\* C4 as stated: the row of a record named "GitHub" has the count the
\* GitHub source reported when called, and the row of a record whose name
\* matches no special case has zero users, no call having been made.
C4_AsStated ==
    pc = "upserted" =>
        /\ vendor.name = "GitHub" =>
               /\ call.source = "github"
               /\ store[db_vendor.id].users = call.reported
        /\ EnrichmentSource(vendor.name) = "none" =>
               /\ call = NoCall
               /\ store[db_vendor.id].users = 0

\* C4 amended: the row of a record named "GitHub" has the count the GitHub
\* source reported when called; the row of a record whose name matches no
\* special case has the users the record decodes to, which is zero when the
\* record omits the field, and no call has been made.
C4_Dispatch ==
    pc = "upserted" =>
        /\ store[db_vendor.id].name = vendor.name
        /\ vendor.name = "GitHub" =>
               /\ call.source = "github"
               /\ store[db_vendor.id].users = call.reported
        /\ EnrichmentSource(vendor.name) = "none" =>
               /\ call = NoCall
               /\ store[db_vendor.id].users =
                      IF results[i].fields.users = Absent THEN 0
                      ELSE results[i].fields.users

\* C4 witness: a "GitHub" row written with the count reported at the call,
\* the source reporting another count since, and the record carrying a
\* third value.
C4_Witness ==
    /\ pc = "upserted"
    /\ vendor.name = "GitHub"
    /\ call.reported = 0
    /\ live["github"] # call.reported
    /\ results[i].fields.users # Absent

\* C5: when the enrichment call for the record at position i fails, the
\* records before i, and only they, have been enriched, in listing order,
\* and the store holds exactly their writes applied to the store the run
\* started from.
C5_FailurePropagation ==
    (pc = "aborted" /\ cause = "enrich") =>
        /\ Len(enriched) = i - 1
        /\ \A k \in 1..Len(enriched) :
               /\ enriched[k].id = results[k].id
               /\ enriched[k].vendor.name = results[k].fields.name
        /\ store = WriteRecords(store0, enriched)

\* C5 witness: the enrichment of the second record failed after the first
\* record changed the store.
C5_Witness ==
    /\ pc = "aborted"
    /\ cause = "enrich"
    /\ i = 2
    /\ store # store0

\* C6 as stated: after a run that aborted, the store is as before the run.
C6_AsStated == pc = "aborted" => store = store0

\* C6 amended: after a run that aborted, the store is as before the run if
\* the run aborted before its first write (configuration, listing, or the
\* enrichment or upsert of the first record); otherwise no row is removed or
\* renamed, the rows not named by a record at or before the failing position
\* are unchanged, and every row added is named by such a record.
C6_AbortedRun ==
    pc = "aborted" =>
        /\ (cause \in {"config", "list"} \/ (i = 1 /\ cause \in {"enrich", "upsert"}))
               => store = store0
        /\ Len(store) >= Len(store0)
        /\ \A j \in 1..Len(store0) :
               /\ store[j].name = store0[j].name
               /\ store[j].name \notin NamesOf(results, i) => store[j] = store0[j]
        /\ \A j \in (Len(store0) + 1)..Len(store) :
               store[j].name \in NamesOf(results, i)

\* C6 witness: a run aborted at its second record, the first having been
\* written, with a row in the store that no record so far names.
C6_Witness ==
    /\ pc = "aborted"
    /\ i = 2
    /\ store # store0
    /\ \E j \in 1..Len(store0) : store0[j].name \notin NamesOf(results, i)

\* C10: no step of the routine removes or renames a row, and a step changes
\* no row whose name the listing does not hold; so the names in the store
\* only grow.
C10_NoDeletion ==
    [][ /\ Len(store') >= Len(store)
        /\ { store[j].name : j \in 1..Len(store) }
               \subseteq { store'[j].name : j \in 1..Len(store') }
        /\ \A j \in 1..Len(store) :
               /\ store'[j].name = store[j].name
               /\ store[j].name \notin NamesOf(results', Len(results'))
                      => store'[j] = store[j] ]_vars

\* C10 witness: a run that wrote ended with a row in the store that the
\* listing does not name.
C10_Witness ==
    /\ pc = "done"
    /\ store # store0
    /\ \E j \in 1..Len(store) : store[j].name \notin NamesOf(results, Len(results))

(***************************************************************************)
(* post_to_channel                                                         *)
(***************************************************************************)
\* The calls a caller makes in one run.
MaxPosts == 2

\* StatusCode::OK.
StatusOK == 200

\* The statuses the endpoint answers with.
StatusCodes == {StatusOK, 204, 404, 500}

\* get_hiring_channel_post_url, get_public_relations_channel_post_url.
ChannelUrls == {"hiring", "public-relations"}

\* The values posted, as v.to_string() renders them.
Payloads == {"{}", "{\"text\":\"hi\"}"}

InitNotifier ==
    /\ NotifierIdle
    /\ VendorsIdle
    /\ FilesIdle
    /\ ConfigIdle

\* The caller calls post_to_channel(url, v): slack.rs:29-30.
PostToChannel ==
    /\ npc = "caller"
    /\ posts < MaxPosts
    /\ \E u \in ChannelUrls, v \in Payloads :
           /\ url' = u
           /\ payload' = v
    /\ npc' = "send"
    /\ attempts' = 0
    /\ response' = NoResponse
    /\ outcome' = "none"
    /\ posts' = posts + 1
    /\ UNCHANGED <<log, vendorVars, fileVars, configVars>>

\* slack.rs:31: the request is sent once and the head of a response comes
\* back; its body may or may not be readable afterwards.
SendAnswered ==
    /\ npc = "send"
    /\ attempts' = attempts + 1
    /\ \E s \in StatusCodes, r \in BOOLEAN :
           response' = [received |-> TRUE, status |-> s, readable |-> r]
    /\ npc' = "match"
    /\ UNCHANGED <<url, payload, log, outcome, posts, vendorVars, fileVars, configVars>>

\* slack.rs:31: the request fails in transport; unwrap panics.
SendFails ==
    /\ npc = "send"
    /\ attempts' = attempts + 1
    /\ npc' = "panicked"
    /\ outcome' = "panicked"
    /\ UNCHANGED <<url, payload, response, log, posts, vendorVars, fileVars, configVars>>

\* slack.rs:33-34: status 200; the call returns to the caller.
MatchOk ==
    /\ npc = "match"
    /\ response.status = StatusOK
    /\ npc' = "caller"
    /\ outcome' = "returned"
    /\ UNCHANGED <<url, payload, attempts, response, log, posts, vendorVars,
                   fileVars, configVars>>

\* slack.rs:35-37: another status; the body is read, the line printed to
\* stdout, and the call returns to the caller.
MatchOtherPrints ==
    /\ npc = "match"
    /\ response.status # StatusOK
    /\ response.readable
    /\ log' = Append(log, [url |-> url, status |-> response.status])
    /\ npc' = "caller"
    /\ outcome' = "returned"
    /\ UNCHANGED <<url, payload, attempts, response, posts, vendorVars, fileVars,
                   configVars>>

\* slack.rs:36: another status and a readable body, but stdout refuses the
\* write; println! panics.
MatchOtherPrintFails ==
    /\ npc = "match"
    /\ response.status # StatusOK
    /\ response.readable
    /\ npc' = "panicked"
    /\ outcome' = "panicked"
    /\ UNCHANGED <<url, payload, attempts, response, log, posts, vendorVars,
                   fileVars, configVars>>

\* slack.rs:36: another status, and resp.text() fails; unwrap panics before
\* anything is printed.
MatchOtherTextFails ==
    /\ npc = "match"
    /\ response.status # StatusOK
    /\ ~response.readable
    /\ npc' = "panicked"
    /\ outcome' = "panicked"
    /\ UNCHANGED <<url, payload, attempts, response, log, posts, vendorVars,
                   fileVars, configVars>>

NextNotifier ==
    \/ PostToChannel
    \/ SendAnswered
    \/ SendFails
    \/ MatchOk
    \/ MatchOtherPrints
    \/ MatchOtherPrintFails
    \/ MatchOtherTextFails

SpecNotifier == InitNotifier /\ [][NextNotifier]_vars

\* C7: a call sends one request and no more, and a call that was answered
\* with a status other than 200 ends by returning to the caller, the failure
\* printed; it never ends in a panic.
C7_NotifierSwallows ==
    /\ attempts <= 1
    /\ outcome # "none" => attempts = 1
    /\ (outcome # "none" /\ response.received /\ response.status # StatusOK) =>
           /\ outcome = "returned"
           /\ npc = "caller"
           /\ log # << >>
           /\ log[Len(log)] = [url |-> url, status |-> response.status]

(***************************************************************************)
(* write_file                                                              *)
(***************************************************************************)
\* The deepest path, in components.
MaxDepth == 2
\* The longest contents, in characters.
MaxLen == 1

\* The names a path is made of.
Components == {"a", "b"}

\* The characters of a String: one of one byte, one of two.
Chars == {"a", "e_acute"}

\* Every path of at most MaxDepth components; << >> is the root.
Paths == UNION { [1..n -> Components] : n \in 0..MaxDepth }

\* Every String of at most MaxLen characters.
Strings == UNION { [1..n -> Chars] : n \in 0..MaxLen }

\* The UTF-8 encoding of a character.
Utf8(c) == IF c = "a" THEN <<97>> ELSE <<195, 169>>

\* contents.as_bytes() (utils.rs:29): the UTF-8 bytes of the String.
RECURSIVE as_bytes(_)
as_bytes(str) ==
    IF str = << >> THEN << >> ELSE Utf8(Head(str)) \o as_bytes(Tail(str))

\* What a path holds.
Nothing == [kind |-> "none", bytes |-> << >>]
Directory == [kind |-> "dir", bytes |-> << >>]
RegularFile(bytes) == [kind |-> "file", bytes |-> bytes]

\* file.parent() (utils.rs:25): the path without its last component.
parent(path) == SubSeq(path, 1, Len(path) - 1)

\* The paths create_dir_all(parent) walks: the parent of a path below the
\* root and every path above it, the root included.
Ancestors(path) == { SubSeq(parent(path), 1, n) : n \in 0..Len(parent(path)) }

\* The file systems a call may find: the root, and at most one path below
\* it that holds a directory or a file, under directories.
InitialFilesystems ==
    { [q \in Paths |-> IF q = << >> THEN Directory ELSE Nothing] } \cup
    { [q \in Paths |-> IF q \in Ancestors(path) THEN Directory
                       ELSE IF q = path THEN node
                       ELSE Nothing] :
        path \in Paths \ { << >> },
        node \in {Directory} \cup { RegularFile(as_bytes(str)) : str \in Strings } }

\* write_file(file, contents) is called.
InitFiles ==
    /\ fs \in InitialFilesystems
    /\ fs0 = fs
    /\ file \in Paths
    /\ contents \in Strings
    /\ utf8 \in BOOLEAN
    /\ info_enabled \in BOOLEAN
    /\ wpc = "called"
    /\ wcause = "none"
    /\ VendorsIdle
    /\ NotifierIdle
    /\ ConfigIdle

Panic(why) ==
    /\ wpc' = "panicked"
    /\ wcause' = why

\* utils.rs:25: the root has no parent; unwrap panics.
ParentNone ==
    /\ wpc = "called"
    /\ file = << >>
    /\ Panic("parent")
    /\ UNCHANGED <<fs, fs0, file, contents, utf8, info_enabled, vendorVars, notifierVars, configVars>>

\* utils.rs:25: fs::create_dir_all makes every missing directory above the
\* file and accepts those that exist.
CreateDirAll ==
    /\ wpc = "called"
    /\ file # << >>
    /\ \A q \in Ancestors(file) : fs[q].kind # "file"
    /\ fs' = [q \in Paths |-> IF q \in Ancestors(file) THEN Directory ELSE fs[q]]
    /\ wpc' = "create"
    /\ UNCHANGED <<fs0, file, contents, wcause, utf8, info_enabled, vendorVars, notifierVars,
                   configVars>>

\* utils.rs:25: a path above the file holds a regular file; create_dir_all
\* fails and unwrap panics.
CreateDirAllFails ==
    /\ wpc = "called"
    /\ file # << >>
    /\ \E q \in Ancestors(file) : fs[q].kind = "file"
    /\ Panic("dirs")
    /\ UNCHANGED <<fs, fs0, file, contents, utf8, info_enabled, vendorVars, notifierVars, configVars>>

\* Mutant of FileCreate: the file is opened for writing without being
\* truncated.
FileOpenNoTruncate ==
    /\ wpc = "create"
    /\ fs[file].kind # "dir"
    /\ fs' = [fs EXCEPT ![file] = RegularFile(fs[file].bytes)]
    /\ wpc' = "write"
    /\ UNCHANGED <<fs0, file, contents, wcause, utf8, info_enabled, vendorVars, notifierVars,
                   configVars>>

\* utils.rs:28: fs::File::create makes the file, or truncates the one there.
FileCreate ==
    /\ wpc = "create"
    /\ fs[file].kind # "dir"
    /\ fs' = [fs EXCEPT ![file] = RegularFile(<< >>)]
    /\ wpc' = "write"
    /\ UNCHANGED <<fs0, file, contents, wcause, utf8, info_enabled, vendorVars, notifierVars,
                   configVars>>

\* utils.rs:28: the path holds a directory; File::create fails and unwrap
\* panics.
FileCreateFails ==
    /\ wpc = "create"
    /\ fs[file].kind = "dir"
    /\ Panic("create")
    /\ UNCHANGED <<fs, fs0, file, contents, utf8, info_enabled, vendorVars, notifierVars, configVars>>

\* Bytes written at the start of a file over what it holds.
Overwrite(old, bytes) ==
    bytes \o SubSeq(old, Len(bytes) + 1, Len(old))

\* utils.rs:29: write_all writes every byte of the contents.
WriteAll ==
    /\ wpc = "write"
    /\ fs' = [fs EXCEPT ![file] =
                 RegularFile(Overwrite(fs[file].bytes, as_bytes(contents)))]
    /\ wpc' = "log"
    /\ UNCHANGED <<fs0, file, contents, wcause, utf8, info_enabled, vendorVars, notifierVars,
                   configVars>>

\* utils.rs:25-29: the file system refuses an operation (permissions, a
\* full disk); unwrap panics.  A write that fails leaves the bytes written
\* before it failed.
IoError ==
    /\ \/ /\ wpc = "called"
          /\ file # << >>
          /\ UNCHANGED fs
       \/ /\ wpc = "create"
          /\ UNCHANGED fs
       \/ /\ wpc = "write"
          /\ \E n \in 0..Len(as_bytes(contents)) :
                 /\ n < Len(as_bytes(contents)) \/ n = 0
                 /\ fs' = [fs EXCEPT ![file] =
                              RegularFile(Overwrite(fs[file].bytes,
                                                    SubSeq(as_bytes(contents), 1, n)))]
    /\ Panic("io")
    /\ UNCHANGED <<fs0, file, contents, utf8, info_enabled, vendorVars, notifierVars, configVars>>

\* utils.rs:31-32: info! evaluates its arguments only when the Info level
\* is enabled; the path is then logged, and the call returns.
LogWrote ==
    /\ wpc = "log"
    /\ ~info_enabled \/ utf8
    /\ wpc' = "returned"
    /\ UNCHANGED <<fs, fs0, file, contents, wcause, utf8, info_enabled, vendorVars, notifierVars,
                   configVars>>

\* utils.rs:31: the Info level is enabled and the path is not valid UTF-8;
\* to_str() is None and unwrap panics, the file written.
LogPanics ==
    /\ wpc = "log"
    /\ info_enabled
    /\ ~utf8
    /\ Panic("utf8")
    /\ UNCHANGED <<fs, fs0, file, contents, utf8, info_enabled, vendorVars, notifierVars, configVars>>

NextFiles ==
    \/ ParentNone
    \/ CreateDirAll
    \/ CreateDirAllFails
    \/ FileCreate
    \/ FileCreateFails
    \/ WriteAll
    \/ IoError
    \/ LogWrote
    \/ LogPanics

SpecFiles == InitFiles /\ [][NextFiles]_vars

\* The file holds the bytes of the contents and every path above it a
\* directory; the paths beside them hold what they held.
Written ==
    /\ fs[file] = RegularFile(as_bytes(contents))
    /\ \A q \in Ancestors(file) : fs[q] = Directory
    /\ \A q \in Paths \ (Ancestors(file) \cup {file}) : fs[q] = fs0[q]

\* C8: once write_file has written (it returned, or panicked only on logging
\* the path), every directory above the path exists and the file holds
\* exactly the bytes of the contents, whatever it held before.  The call
\* panics before that only if the path has no parent, a path above it holds
\* a regular file, the path holds a directory, or the file system refuses an
\* operation: never because directories are missing or the file exists.  It
\* panics after it only on logging a path that is not valid UTF-8 with the
\* Info level enabled.
C8_WriteFile ==
    /\ wpc \in {"log", "returned"} => Written
    /\ wpc = "panicked" =>
           /\ wcause \in {"parent", "dirs", "create", "io", "utf8"}
           /\ wcause = "parent" => file = << >>
           /\ wcause = "dirs" => \E q \in Ancestors(file) : fs0[q].kind = "file"
           /\ wcause = "create" => fs0[file].kind = "dir"
           /\ wcause = "utf8" => (Written /\ info_enabled /\ ~utf8)

\* C8 witness: the call returned for a path no directory above which
\* existed, with contents that are not empty.
C8_Witness ==
    /\ wpc = "returned"
    /\ Len(file) = MaxDepth
    /\ \A q \in Ancestors(file) \ { << >> } : fs0[q].kind = "none"
    /\ contents # << >>

(***************************************************************************)
(* read_config_from_files                                                  *)
(***************************************************************************)
\* The most values the "file" argument is given.
MaxFiles == 2

\* The files the command line may name.
FileNames == {"base.toml", "extra.toml"}

\* The bodies a file may hold, as sequences of characters: a table line
\* ended by a newline, one not ended, an empty file, a line that sets a key
\* another body sets too.
Bodies ==
    { <<"a", "=", "1", "\n">>,
      <<"b", "=", "2">>,
      <<"b", "=", "2", "\n">>,
      << >>,
      <<"a", "=", "2", "\n">> }

\* What the disk holds under a name: a body, or a file that cannot be read.
Unreadable == [readable |-> FALSE, body |-> << >>]
DiskEntries == { [readable |-> TRUE, body |-> b] : b \in Bodies } \cup {Unreadable}

\* What values_of("file") may return: None, or at least one value.
CommandLines ==
    { [given |-> FALSE, values |-> << >>] } \cup
    { [given |-> TRUE, values |-> v] :
        v \in UNION { [1..n -> FileNames] : n \in 1..MaxFiles } }

\* The text up to the first newline, and the text after it.
RECURSIVE FirstLine(_)
FirstLine(text) ==
    IF text = << >> \/ Head(text) = "\n" THEN << >>
    ELSE <<Head(text)>> \o FirstLine(Tail(text))

AfterFirstLine(text) ==
    IF Len(FirstLine(text)) = Len(text) THEN << >>
    ELSE SubSeq(text, Len(FirstLine(text)) + 2, Len(text))

\* The lines of a text.
RECURSIVE Lines(_)
Lines(text) ==
    IF text = << >> THEN << >>
    ELSE <<FirstLine(text)>> \o Lines(AfterFirstLine(text))

\* A line of the document: empty, or key = integer.
IsPair(line) ==
    /\ Len(line) = 3
    /\ line[1] \in {"a", "b"}
    /\ line[2] = "="
    /\ line[3] \in {"1", "2"}

\* toml::from_str (utils.rs:56) on the documents of this model: every line
\* is empty or a key/value pair, and no key is set twice.
toml_from_str(text) ==
    LET lines == Lines(text)
        pairs == { k \in 1..Len(lines) : lines[k] # << >> }
        wellFormed ==
            /\ \A k \in pairs : IsPair(lines[k])
            /\ \A j, k \in pairs : lines[j][1] = lines[k][1] => j = k
    IN  IF wellFormed
        THEN [ok |-> TRUE, table |-> { <<lines[k][1], lines[k][3]>> : k \in pairs }]
        ELSE NoConfig

\* read_config_from_files(cli_matches) is called.
InitConfig ==
    /\ disk \in [FileNames -> DiskEntries]
    /\ cli_matches \in CommandLines
    /\ files = << >>
    /\ rpc = "called"
    /\ next_file = 0
    /\ config_contents = << >>
    /\ config = NoConfig
    /\ rcause = "none"
    /\ VendorsIdle
    /\ NotifierIdle
    /\ FilesIdle

\* utils.rs:37-38: no "file" value was given; the function panics.
ValuesOfNone ==
    /\ rpc = "called"
    /\ ~cli_matches.given
    /\ rpc' = "panicked"
    /\ rcause' = "no files"
    /\ UNCHANGED <<disk, cli_matches, files, next_file, config_contents, config,
                   vendorVars, notifierVars, fileVars>>

\* utils.rs:39-44: the values are collected and the contents start empty.
ValuesOfSome ==
    /\ rpc = "called"
    /\ cli_matches.given
    /\ files' = cli_matches.values
    /\ next_file' = 1
    /\ config_contents' = << >>
    /\ rpc' = "read"
    /\ UNCHANGED <<disk, cli_matches, config, rcause, vendorVars, notifierVars,
                   fileVars>>

\* Mutant of ReadFile: the body is put before the contents read so far.
ReadFilePrepends ==
    /\ rpc = "read"
    /\ next_file <= Len(files)
    /\ disk[files[next_file]].readable
    /\ config_contents' = disk[files[next_file]].body \o config_contents
    /\ next_file' = next_file + 1
    /\ UNCHANGED <<disk, cli_matches, files, rpc, config, rcause, vendorVars,
                   notifierVars, fileVars>>

\* utils.rs:45-53: the next file is read and its body appended.
ReadFile ==
    /\ rpc = "read"
    /\ next_file <= Len(files)
    /\ disk[files[next_file]].readable
    /\ config_contents' = config_contents \o disk[files[next_file]].body
    /\ next_file' = next_file + 1
    /\ UNCHANGED <<disk, cli_matches, files, rpc, config, rcause, vendorVars,
                   notifierVars, fileVars>>

\* utils.rs:49: the next file cannot be read; expect panics.
ReadFileFails ==
    /\ rpc = "read"
    /\ next_file <= Len(files)
    /\ ~disk[files[next_file]].readable
    /\ rpc' = "panicked"
    /\ rcause' = "read"
    /\ UNCHANGED <<disk, cli_matches, files, next_file, config_contents, config,
                   vendorVars, notifierVars, fileVars>>

\* utils.rs:56-58: the contents decode and the Config is returned.
DecodeContents ==
    /\ rpc = "read"
    /\ next_file > Len(files)
    /\ toml_from_str(config_contents).ok
    /\ config' = toml_from_str(config_contents)
    /\ rpc' = "returned"
    /\ UNCHANGED <<disk, cli_matches, files, next_file, config_contents, rcause,
                   vendorVars, notifierVars, fileVars>>

\* utils.rs:56: the contents do not decode; unwrap panics.
DecodeFails ==
    /\ rpc = "read"
    /\ next_file > Len(files)
    /\ ~toml_from_str(config_contents).ok
    /\ rpc' = "panicked"
    /\ rcause' = "decode"
    /\ UNCHANGED <<disk, cli_matches, files, next_file, config_contents, config,
                   vendorVars, notifierVars, fileVars>>

NextConfig ==
    \/ ValuesOfNone
    \/ ValuesOfSome
    \/ ReadFile
    \/ ReadFileFails
    \/ DecodeContents
    \/ DecodeFails

SpecConfig == InitConfig /\ [][NextConfig]_vars

\* The bodies of the named files, one after the other, nothing between.
RECURSIVE Concatenation(_)
Concatenation(names) ==
    IF names = << >> THEN << >>
    ELSE disk[Head(names)].body \o Concatenation(Tail(names))

AllReadable(names) == \A k \in 1..Len(names) : disk[names[k]].readable

\* C9: the Config returned is the decoding of the concatenation of the
\* bodies of the files in argument order, taken as one document; the call
\* returns only if every file can be read and that concatenation decodes,
\* and it panics, returning no Config, if a file cannot be read or the
\* concatenation does not decode.
C9_ReadConfig ==
    /\ rpc = "returned" =>
           /\ AllReadable(cli_matches.values)
           /\ toml_from_str(Concatenation(cli_matches.values)).ok
           /\ config = toml_from_str(Concatenation(cli_matches.values))
    /\ (rpc \in {"returned", "panicked"} /\ cli_matches.given
            /\ (\/ ~AllReadable(cli_matches.values)
                \/ ~toml_from_str(Concatenation(cli_matches.values)).ok)) =>
           /\ rpc = "panicked"
           /\ config = NoConfig
    /\ rpc = "panicked" =>
           /\ config = NoConfig
           /\ rcause = "no files" => ~cli_matches.given
           /\ rcause = "read" => ~AllReadable(cli_matches.values)
           /\ rcause = "decode" =>
                  ~toml_from_str(Concatenation(cli_matches.values)).ok

\* C9 witness: two files were given, in an order whose concatenation decodes
\* while the opposite order's does not, and the Config holds both tables.
C9_Witness ==
    /\ rpc = "returned"
    /\ Len(files) = 2
    /\ Cardinality(config.table) = 2
    /\ ~toml_from_str(disk[files[2]].body \o disk[files[1]].body).ok

====
